---- MODULE Spec2Model ----
(***************************************************************************)
(* Dashboard updater: the caching spreadsheet variant (fetch_chart,        *)
(* compute_returns, write_to_excel, main) and the CSV variant (fetch,      *)
(* main).  Strings the code inspects character by character (tickers,      *)
(* cache file names, sheet cells) are sequences of one-character strings.  *)
(* Floating-point values are exact rationals [num, den] in lowest terms.   *)
(***************************************************************************)
EXTENDS Integers, Sequences, FiniteSets, TLC

VARIABLES
    chart, lookback, calcOut,                    \* one decoded response and the calculators' results
    clock, cache, lastCall,                      \* fetch_chart and its cache files
    workbook, mergeLog,                          \* the workbook and the last write_to_excel
    variant, pc, idx, spy, out_rows,             \* one run of main
    destCsv, tmpCsv, run

vars == <<chart, lookback, calcOut, clock, cache, lastCall,
          workbook, mergeLog, variant, pc, idx, spy, out_rows,
          destCsv, tmpCsv, run>>

\* what each part leaves alone
calcVars    == <<chart, lookback, calcOut>>
runVars     == <<variant, pc, idx, spy, out_rows, destCsv, tmpCsv, run>>
notCalc     == <<clock, cache, lastCall, workbook, mergeLog, runVars>>
notCache    == <<calcVars, workbook, mergeLog, runVars>>
notMerge    == <<calcVars, cache, lastCall, runVars>>
notRun      == <<calcVars, lastCall, mergeLog>>

----------------------------------------------------------------------------
(* Bounds of the model *)
MaxSmallLen == 3      \* closing-price sequences enumerated exhaustively up to this length
MaxClose    == 2      \* closes of the enumerated sequences range over 0..MaxClose and null
MaxPad      == 1      \* generated series are as long as a threshold, plus or minus up to this

MaxClock    == 2      \* seconds the clock may advance while fetch_chart is exercised
MaxAgeArg   == 1      \* max_age_sec arguments range over 0..MaxAgeArg
MaxDataRows == 2      \* rows below the header of a workbook before the first write
MaxRows     == 2      \* computed rows handed to one write_to_excel call
MaxWrites   == 2      \* write_to_excel calls on one workbook
NumTickers  == 3      \* tickers of each configured list a run processes

(* Program constants *)
LB_1M  == 21
LB_3M  == 63
LB_6M  == 126
LB_12M == 252
CSV_MIN_OBS == 130
CSV_IDX_3M  == 63
CSV_IDX_6M  == 126

NULL == 0 - 1                       \* JSON null in a closes array (closes are never negative)
None == [num |-> 0, den |-> 0]      \* Python None where a float is expected
Malformed == [ok |-> FALSE, close |-> <<>>]  \* a JSON document without the close path

----------------------------------------------------------------------------
(* Python values *)

Abs(x) == IF x < 0 THEN -x ELSE x

RECURSIVE Gcd(_, _)
Gcd(a, b) == IF b = 0 THEN a ELSE Gcd(b, a % b)

\* the rational n/d (d # 0) in lowest terms with a positive denominator
Rat(n, d) ==
    LET g == Gcd(Abs(n), Abs(d))
        s == IF d < 0 THEN -1 ELSE 1
    IN  [num |-> (s * n) \div g, den |-> (s * d) \div g]

\* float(x) of a JSON number
Float(x) == Rat(x, 1)

RatDiv(a, b) == Rat(a.num * b.den, a.den * b.num)
RatSub(a, b) == Rat(a.num * b.den - b.num * a.den, a.den * b.den)
One == Rat(1, 1)

IndexError == 0 - 3                 \* marks an index out of range

\* s[i] with Python's indexing: 0-based, negative i counts from the end
PyIndex(s, i) ==
    LET j == IF i < 0 THEN i + Len(s) ELSE i
    IN  IF j < 0 \/ j >= Len(s) THEN IndexError ELSE s[j + 1]

NotNone(x) == x # NULL

----------------------------------------------------------------------------
(* Return calculators of the spreadsheet variant *)

\* chart_json["chart"]["result"][0]["indicators"]["quote"][0]["close"]; raises when absent
HasCloses(chart_json) == chart_json.ok
ClosesOf(chart_json) == chart_json.close

RECURSIVE LastNonNull(_, _)
LastNonNull(closes, i) ==
    IF i = 0 THEN None
    ELSE IF closes[i] # NULL THEN Float(closes[i])
    ELSE LastNonNull(closes, i - 1)

last_valid_close(chart_json) ==
    IF ~HasCloses(chart_json) THEN None
    ELSE LastNonNull(ClosesOf(chart_json), Len(ClosesOf(chart_json)))

close_n_days_ago_clamped(chart_json, n) ==
    IF ~HasCloses(chart_json) THEN None
    ELSE LET nn == SelectSeq(ClosesOf(chart_json), NotNone)
         IN  IF Len(nn) = 0 THEN None
             ELSE IF Len(nn) <= n THEN Float(nn[1])
             ELSE Float(PyIndex(nn, -(n + 1)))

close_n_days_ago(chart_json, n) ==
    IF ~HasCloses(chart_json) THEN None
    ELSE LET nn == SelectSeq(ClosesOf(chart_json), NotNone)
         IN  IF Len(nn) <= n THEN None
             ELSE LET x == PyIndex(nn, -(n + 1))
                  IN  IF x = IndexError THEN None ELSE Float(x)

pct_return(last, past) ==
    IF last = None \/ past = None THEN None
    ELSE IF past.num = 0 THEN None
    ELSE RatSub(RatDiv(last, past), One)

\* compute_returns after its fetch: last, ret_1m, ret_3m, ret_6m, ret_12m
ReturnsOf(j) ==
    LET last == last_valid_close(j)
    IN  [last |-> last,
         r1  |-> pct_return(last, close_n_days_ago(j, LB_1M)),
         r3  |-> pct_return(last, close_n_days_ago(j, LB_3M)),
         r6  |-> pct_return(last, close_n_days_ago(j, LB_6M)),
         r12 |-> pct_return(last, close_n_days_ago(j, LB_12M))]

----------------------------------------------------------------------------
(* fetch of the CSV variant, after the HTTP request succeeded *)

NoVal == [last |-> None, r3 |-> None, r6 |-> None]
Raised(e) == [raised |-> TRUE, exc |-> e, val |-> NoVal]
Returned(v) == [raised |-> FALSE, exc |-> "", val |-> v]

CsvFetchOf(j) ==
    IF ~HasCloses(j) THEN Raised("KeyError")
    ELSE LET closes == SelectSeq(ClosesOf(j), NotNone)
         IN  IF Len(closes) < CSV_MIN_OBS
             THEN Returned(NoVal)
             ELSE LET last == PyIndex(closes, -1)
                      c3 == PyIndex(closes, -CSV_IDX_3M)
                      c6 == PyIndex(closes, -CSV_IDX_6M)
                  IN  IF c3 = 0 \/ c6 = 0 THEN Raised("ZeroDivisionError")
                      ELSE Returned([last |-> Float(last),
                                     r3 |-> RatSub(RatDiv(Float(last), Float(c3)), One),
                                     r6 |-> RatSub(RatDiv(Float(last), Float(c6)), One)])

----------------------------------------------------------------------------
(* Closing-price inputs *)

CloseVals == (0..MaxClose) \cup {NULL}

SmallSeries == UNION {[1..k -> CloseVals] : k \in 0..MaxSmallLen}

\* len daily closes 101, 102, ... with every stride-th observation missing and,
\* when zeroBack > 0, a close of 0 at the zeroBack-th observation from the end
Ramp(len, stride, zeroBack) ==
    [i \in 1..len |-> IF zeroBack > 0 /\ i = len - zeroBack + 1 THEN 0
                      ELSE IF stride > 0 /\ i % stride = 0 THEN NULL
                      ELSE 100 + i]

Thresholds == {LB_1M, LB_3M, LB_6M, CSV_MIN_OBS, LB_12M}
RampLens == {t + d : t \in Thresholds, d \in (0 - MaxPad)..(MaxPad + 1)}
Strides == {0, 50}

ZeroBacks == {0, CSV_IDX_3M, LB_6M + 1}

LongSeries == {Ramp(l, s, z) : l \in RampLens, s \in Strides, z \in ZeroBacks}

ChartOf(closes) == [ok |-> TRUE, close |-> closes]
CalcCharts == {Malformed} \cup {ChartOf(s) : s \in SmallSeries \cup LongSeries}
Lookbacks == (0..(MaxSmallLen + 1)) \cup {LB_1M, LB_3M, LB_6M, LB_12M}

----------------------------------------------------------------------------
(* fetch_chart and its cache files *)

Replace(str, old, new) == [i \in 1..Len(str) |-> IF str[i] = old THEN new ELSE str[i]]

cache_path(cache_dir, ticker, range_, interval) ==
    LET safe == Replace(ticker, "^", "_")
    IN  cache_dir \o <<"/">> \o safe \o <<"_">> \o range_ \o <<"_">> \o interval \o <<".json">>

\* what requests.get, raise_for_status and r.json() produce
HttpError == [ok |-> FALSE, json |-> Malformed]
HttpOk(j) == [ok |-> TRUE, json |-> j]

NoFiles == [p \in {} |-> 0]

\* One call of fetch_chart at time now over the cache files: whether it raised, the
\* document it returned, the files afterwards, and the network calls it made.
\* A file remembers the arguments that stored it (key), which the code does not read.
fetch_chart_strict(files, now, ticker, range_, interval, cache_dir, max_age_sec, net) ==
    LET cp == cache_path(cache_dir, ticker, range_, interval)
    IN  IF cp \in DOMAIN files /\ now - files[cp].mtime < max_age_sec
        THEN [raised |-> FALSE, data |-> files[cp].data, files |-> files, calls |-> 0]
        ELSE IF ~net.ok
        THEN [raised |-> TRUE, data |-> Malformed, files |-> files, calls |-> 1]
        ELSE [raised |-> FALSE, data |-> net.json, calls |-> 1,
              files |-> (cp :> [mtime |-> now, data |-> net.json,
                                key |-> <<ticker, range_, interval>>]) @@ files]

fetch_chart(files, now, ticker, range_, interval, cache_dir, max_age_sec, net) ==
    LET cp == cache_path(cache_dir, ticker, range_, interval)
    IN  IF cp \in DOMAIN files /\ now - files[cp].mtime <= max_age_sec
        THEN [raised |-> FALSE, data |-> files[cp].data, files |-> files, calls |-> 0]
        ELSE IF ~net.ok
        THEN [raised |-> TRUE, data |-> Malformed, files |-> files, calls |-> 1]
        ELSE [raised |-> FALSE, data |-> net.json, calls |-> 1,
              files |-> (cp :> [mtime |-> now, data |-> net.json,
                                key |-> <<ticker, range_, interval>>]) @@ files]

CacheDir == <<"c", "a", "c", "h", "e">>
CacheTickers == {<<"A">>, <<"^", "A">>}
Ranges == {<<"2", "y">>, <<"1", "y">>}
Intervals == {<<"1", "d">>}

\* the upstream document at time t
Upstream(t) == ChartOf(<<100 + t>>)

NoCall == [called |-> FALSE, key |-> <<>>, max_age |-> 0, now |-> 0, had |-> FALSE,
           age |-> 0, pre |-> Malformed, preKey |-> <<>>, net |-> HttpError,
           raised |-> FALSE, data |-> Malformed, calls |-> 0]

----------------------------------------------------------------------------
(* Strings and sheet cells *)

LowerCase == <<"a", "b", "c", "d", "e", "f", "g", "h", "i", "j", "k", "l", "m",
               "n", "o", "p", "q", "r", "s", "t", "u", "v", "w", "x", "y", "z">>
UpperCase == <<"A", "B", "C", "D", "E", "F", "G", "H", "I", "J", "K", "L", "M",
               "N", "O", "P", "Q", "R", "S", "T", "U", "V", "W", "X", "Y", "Z">>

UpperChar(c) ==
    IF \E i \in 1..Len(LowerCase) : LowerCase[i] = c
    THEN UpperCase[CHOOSE i \in 1..Len(LowerCase) : LowerCase[i] = c]
    ELSE c

\* str.upper()
Upper(str) == [i \in 1..Len(str) |-> UpperChar(str[i])]

IsSpace(c) == c = " "

\* str.strip()
Strip(str) ==
    LET keep == {i \in 1..Len(str) : ~IsSpace(str[i])}
    IN  IF keep = {} THEN <<>>
        ELSE LET lo == CHOOSE i \in keep : \A j \in keep : i <= j
                 hi == CHOOSE i \in keep : \A j \in keep : i >= j
             IN  SubSeq(str, lo, hi)

\* a cell value: a string, a number, a timestamp, or None
EmptyCell == [t |-> "none", s |-> <<>>, n |-> None]
StrCell(str) == [t |-> "str", s |-> str, n |-> None]
NumCell(x) == IF x = None THEN EmptyCell ELSE [t |-> "num", s |-> <<>>, n |-> x]
TimeCell(at) == [t |-> "time", s |-> <<>>, n |-> Rat(at, 1)]

LAST_COL == 14                  \* the last column write_to_excel assigns
Width == LAST_COL + 1           \* sheets carry one more column, which the code never names

SOURCE_LABEL == <<"Yahoo Finance (chart)">>

----------------------------------------------------------------------------
(* write_to_excel *)

\* isinstance(t, str) and t.strip()
IsTickerCell(c) == c.t = "str" /\ Strip(c.s) # <<>>

TickerKey_nostrip(c) == Upper(c.s)

\* t.strip().upper()
TickerKey(c) == Upper(Strip(c.s))

\* ticker_to_row: a later row with the same key replaces an earlier one
TickerToRow(ws) ==
    LET keyed == {r \in 2..Len(ws) : IsTickerCell(ws[r][1])}
    IN  [k \in {TickerKey(ws[r][1]) : r \in keyed} |->
            CHOOSE r \in keyed : /\ TickerKey(ws[r][1]) = k
                                 /\ \A q \in keyed : TickerKey(ws[q][1]) = k => q <= r]

\* the value assigned to column c (2..14) from a computed row
Payload(row, c, now) ==
    CASE c = 2 -> StrCell(row.Name)
      [] c = 3 -> StrCell(row.Category)
      [] c = 4 -> NumCell(row.Last)
      [] c = 5 -> NumCell(row.Ret_1M)
      [] c = 6 -> NumCell(row.Ret_3M)
      [] c = 7 -> NumCell(row.Ret_6M)
      [] c = 8 -> NumCell(row.Ret_12M)
      [] c = 9 -> NumCell(row.RS_3M)
      [] c = 10 -> NumCell(row.RS_6M)
      [] c = 11 -> NumCell(row.RS_12M)
      [] c = 12 -> StrCell(SOURCE_LABEL)
      [] c = 13 -> TimeCell(now)
      [] c = 14 -> TimeCell(now)

BlankRow == [c \in 1..Width |-> EmptyCell]

AssignRow_withTicker(ws, r, row, now) ==
    [ws EXCEPT ![r] = [c \in 1..Width |->
        IF c = 1 THEN StrCell(Upper(row.Ticker))
        ELSE IF c \in 2..LAST_COL THEN Payload(row, c, now) ELSE ws[r][c]]]

\* lines 150-162: columns 2..14 of sheet row r
AssignRow(ws, r, row, now) ==
    [ws EXCEPT ![r] = [c \in 1..Width |->
        IF c \in 2..LAST_COL THEN Payload(row, c, now) ELSE ws[r][c]]]

\* the loop over rows, from rows[i] on; ws.max_row is Len(ws)
RECURSIVE ApplyRows(_, _, _, _, _)
ApplyRows(ws, ticker_to_row, rows, i, now) ==
    IF i > Len(rows) THEN ws
    ELSE LET row == rows[i]
             t == Upper(row.Ticker)
             isNew == t \notin DOMAIN ticker_to_row
             r == IF isNew THEN Len(ws) + 1 ELSE ticker_to_row[t]
             ws1 == IF isNew
                    THEN Append(ws, [BlankRow EXCEPT ![1] = StrCell(t)])
                    ELSE ws
         IN  ApplyRows(AssignRow(ws1, r, row, now), ticker_to_row, rows, i + 1, now)

\* the stored workbook after the call, whether it raised, whether it saved
write_to_excel(wb, rows, now) ==
    IF ~wb.has_data THEN [raised |-> TRUE, wb |-> wb, saved |-> FALSE]
    ELSE [raised |-> FALSE, saved |-> TRUE,
          wb |-> [wb EXCEPT !.Data = ApplyRows(wb.Data, TickerToRow(wb.Data), rows, 1, now)]]

Pending == [pending |-> TRUE]
CalcOps == {"close_n_days_ago", "last_valid_close", "compute_returns", "fetch"}

----------------------------------------------------------------------------
(* The idle parts of a specification: every variable another part owns *)

IdleCalc == chart = Malformed /\ lookback = 0 /\ calcOut = [o \in CalcOps |-> Pending]

----------------------------------------------------------------------------
(* The calculators applied to one decoded response *)

InitCalc ==
    /\ chart \in CalcCharts
    /\ lookback \in Lookbacks
    /\ calcOut = [o \in CalcOps |-> Pending]

ApplyCloseNDaysAgo ==
    /\ calcOut["close_n_days_ago"] = Pending
    /\ calcOut' = [calcOut EXCEPT !["close_n_days_ago"] = close_n_days_ago(chart, lookback)]
    /\ UNCHANGED <<chart, lookback, notCalc>>

ApplyLastValidClose ==
    /\ calcOut["last_valid_close"] = Pending
    /\ calcOut' = [calcOut EXCEPT !["last_valid_close"] = last_valid_close(chart)]
    /\ UNCHANGED <<chart, lookback, notCalc>>

ApplyComputeReturns ==
    /\ calcOut["compute_returns"] = Pending
    /\ calcOut' = [calcOut EXCEPT !["compute_returns"] = ReturnsOf(chart)]
    /\ UNCHANGED <<chart, lookback, notCalc>>

ApplyCsvFetch ==
    /\ calcOut["fetch"] = Pending
    /\ calcOut' = [calcOut EXCEPT !["fetch"] = CsvFetchOf(chart)]
    /\ UNCHANGED <<chart, lookback, notCalc>>

----------------------------------------------------------------------------
(* fetch_chart called repeatedly while time passes *)

IdleCache == clock = 0 /\ cache = NoFiles /\ lastCall = NoCall

InitCache == clock = 0 /\ cache = NoFiles /\ lastCall = NoCall

Tick ==
    /\ clock < MaxClock
    /\ clock' = clock + 1
    /\ UNCHANGED <<cache, lastCall, notCache>>

CallFetchChart ==
    \E ticker \in CacheTickers, range_ \in Ranges, interval \in Intervals,
       max_age_sec \in 0..MaxAgeArg, net \in {HttpError, HttpOk(Upstream(clock))} :
        LET cp == cache_path(CacheDir, ticker, range_, interval)
            had == cp \in DOMAIN cache
            r == fetch_chart(cache, clock, ticker, range_, interval, CacheDir,
                             max_age_sec, net)
        IN  /\ cache' = r.files
            /\ lastCall' = [called |-> TRUE, key |-> <<ticker, range_, interval>>,
                            max_age |-> max_age_sec, now |-> clock, had |-> had,
                            age |-> IF had THEN clock - cache[cp].mtime ELSE 0,
                            pre |-> IF had THEN cache[cp].data ELSE Malformed,
                            preKey |-> IF had THEN cache[cp].key ELSE <<>>,
                            net |-> net, raised |-> r.raised, data |-> r.data,
                            calls |-> r.calls]
            /\ UNCHANGED <<clock, notCache>>

----------------------------------------------------------------------------
(* write_to_excel called repeatedly on one workbook *)

\* what column A of a user's sheet may hold
ColumnA == {EmptyCell, NumCell(One), StrCell(<<" ">>), StrCell(<<"A">>),
            StrCell(<<" ", "a", " ">>)}

OldCell == StrCell(<<"old">>)
UserRow(a) == [c \in 1..Width |-> IF c = 1 THEN a ELSE OldCell]
HeaderRow == [c \in 1..Width |-> StrCell(<<"header">>)]

Sheets == {<<HeaderRow>> \o [i \in 1..Len(f) |-> UserRow(f[i])] :
              f \in UNION {[1..k -> ColumnA] : k \in 0..MaxDataRows}}

NoWorkbook == [has_data |-> FALSE, Data |-> <<>>]
Workbooks == {[has_data |-> TRUE, Data |-> ws] : ws \in Sheets} \cup {NoWorkbook}

RowTickers == {<<"A">>, <<"a">>, <<"C">>}

RowOf(ticker, last) ==
    [Ticker |-> ticker, Name |-> <<"name">> \o ticker, Category |-> <<"INDEX">>,
     Last |-> last, Ret_1M |-> None, Ret_3M |-> last, Ret_6M |-> None,
     Ret_12M |-> None, RS_3M |-> None, RS_6M |-> None, RS_12M |-> None]

\* lists of computed rows with pairwise distinct tickers
RowLists ==
    {rs \in UNION {[1..k -> {RowOf(t, l) : t \in RowTickers, l \in {None, One}}] :
                      k \in 0..MaxRows} :
        \A i, j \in 1..Len(rs) : i # j => rs[i].Ticker # rs[j].Ticker}

NoWrite == [called |-> FALSE, n |-> 0, pre |-> NoWorkbook, rows |-> <<>>, now |-> 0,
            raised |-> FALSE, saved |-> FALSE, again |-> FALSE, added |-> FALSE]

IdleMerge == workbook = NoWorkbook /\ mergeLog = NoWrite

InitMerge == workbook \in Workbooks /\ mergeLog = NoWrite

\* one call write_to_excel(xlsx_path, rows) at time clock
DoWrite(rows, again, added) ==
    LET r == write_to_excel(workbook, rows, clock)
    IN  /\ workbook' = r.wb
        /\ mergeLog' = [called |-> TRUE, n |-> mergeLog.n + 1, pre |-> workbook,
                        rows |-> rows, now |-> clock, raised |-> r.raised,
                        saved |-> r.saved, again |-> again, added |-> added]
        /\ clock' = clock + 1
        /\ UNCHANGED notMerge

FirstWrite ==
    /\ ~mergeLog.called
    /\ \E rows \in RowLists : DoWrite(rows, FALSE, FALSE)

\* the next run computes the same tickers
WriteAgain ==
    /\ mergeLog.called /\ mergeLog.n < MaxWrites
    /\ DoWrite(mergeLog.rows, TRUE, FALSE)

\* the next run computes the same tickers and one more
WriteWithNewTicker ==
    /\ mergeLog.called /\ mergeLog.n < MaxWrites
    /\ Len(mergeLog.rows) < MaxRows
    /\ \E t \in RowTickers :
        /\ \A i \in 1..Len(mergeLog.rows) : mergeLog.rows[i].Ticker # t
        /\ DoWrite(Append(mergeLog.rows, RowOf(t, One)), FALSE, TRUE)

----------------------------------------------------------------------------
(* Configuration of the two variants *)

DEFAULT_TICKERS ==
    <<<<<<"INDEX">>, <<"S", "P", "Y">>, <<"S&P 500 (SPY)">>>>,
      <<<<"INDEX">>, <<"Q", "Q", "Q">>, <<"Nasdaq 100 (QQQ)">>>>,
      <<<<"INDEX">>, <<"I", "W", "M">>, <<"Russell 2000 (IWM)">>>>,
      <<<<"INDEX">>, <<"D", "I", "A">>, <<"Dow 30 (DIA)">>>>,
      <<<<"SECTOR">>, <<"X", "L", "K">>, <<"Technology (XLK)">>>>,
      <<<<"SECTOR">>, <<"X", "L", "F">>, <<"Financials (XLF)">>>>,
      <<<<"SECTOR">>, <<"X", "L", "E">>, <<"Energy (XLE)">>>>,
      <<<<"SECTOR">>, <<"X", "L", "V">>, <<"Health Care (XLV)">>>>,
      <<<<"STYLE">>, <<"I", "W", "F">>, <<"Growth (IWF)">>>>,
      <<<<"STYLE">>, <<"I", "W", "D">>, <<"Value (IWD)">>>>,
      <<<<"STYLE">>, <<"M", "T", "U", "M">>, <<"Momentum (MTUM)">>>>,
      <<<<"STYLE">>, <<"Q", "U", "A", "L">>, <<"Quality (QUAL)">>>>,
      <<<<"RISK">>, <<"T", "L", "T">>, <<"Long Treasuries (TLT)">>>>,
      <<<<"RISK">>, <<"G", "L", "D">>, <<"Gold (GLD)">>>>,
      <<<<"RISK">>, <<"U", "U", "P">>, <<"US Dollar (UUP)">>>>,
      <<<<"RISK">>, <<"V", "I", "X", "Y">>, <<"VIX Short-Term (VIXY)">>>>,
      <<<<"COMMOD">>, <<"U", "S", "O">>, <<"Oil (USO)">>>>>>

TICKERS ==
    <<<<"S", "P", "Y">>, <<"Q", "Q", "Q">>, <<"X", "L", "K">>, <<"X", "L", "F">>, <<"I", "W", "F">>, <<"I", "W", "D">>, <<"T", "L", "T">>, <<"G", "L", "D">>>>

SPY == <<"S", "P", "Y">>
RANGE_2Y == <<"2", "y">>
INTERVAL_1D == <<"1", "d">>
MAX_AGE_SEC == 3600

\* the first NumTickers entries of each list are configured
XlTickers == SubSeq(DEFAULT_TICKERS, 1, NumTickers)
CsvTickers == SubSeq(TICKERS, 1, NumTickers)

----------------------------------------------------------------------------
(* What the upstream service may answer during a run *)

AllNull == ChartOf(<<NULL, NULL>>)
ShortChart == ChartOf(Ramp(LB_6M, 0, 0))
FullChart == ChartOf(Ramp(LB_12M + 8, 50, 0))
OtherChart == ChartOf(Ramp(LB_12M + 2, 0, 0))
ZeroChart == ChartOf(Ramp(LB_12M + 8, 0, CSV_IDX_3M))

RunNet == {HttpError} \cup
          {HttpOk(j) : j \in {Malformed, AllNull, ShortChart, FullChart, OtherChart, ZeroChart}}

----------------------------------------------------------------------------
(* main of the spreadsheet variant *)

NoReturns == [last |-> None, r1 |-> None, r3 |-> None, r6 |-> None, r12 |-> None]

\* compute_returns: the fetch, then the calculators
compute_returns(ticker, cache_dir, files, now, net) ==
    LET f == fetch_chart(files, now, ticker, RANGE_2Y, INTERVAL_1D, cache_dir,
                         MAX_AGE_SEC, net)
    IN  [raised |-> f.raised, files |-> f.files,
         val |-> IF f.raised THEN NoReturns ELSE ReturnsOf(f.data)]

\* (r - spy) if both are present
RelStrength(r, bench) == IF r # None /\ bench # None THEN RatSub(r, bench) ELSE None

XlRow(entry, v, bench) ==
    [Ticker |-> entry[2], Name |-> entry[3], Category |-> entry[1],
     Last |-> v.last, Ret_1M |-> v.r1, Ret_3M |-> v.r3, Ret_6M |-> v.r6,
     Ret_12M |-> v.r12, RS_3M |-> RelStrength(v.r3, bench.r3),
     RS_6M |-> RelStrength(v.r6, bench.r6), RS_12M |-> RelStrength(v.r12, bench.r12)]

XlBenchmark_caught ==
    /\ variant = "xlsx" /\ pc = "benchmark"
    /\ \E net \in RunNet :
        LET r == compute_returns(SPY, CacheDir, cache, clock, net)
        IN  /\ cache' = r.files
            /\ spy' = r.val
            /\ pc' = "loop"
            /\ run' = [run EXCEPT !.benchRaised = r.raised, !.benchFetched = ~r.raised,
                                  !.benchVals = r.val, !.passed = TRUE]
    /\ UNCHANGED <<idx, out_rows, workbook, destCsv, tmpCsv, variant, clock, notRun>>

\* line 178: an exception of the benchmark's compute_returns ends the run
XlBenchmark ==
    /\ variant = "xlsx" /\ pc = "benchmark"
    /\ \E net \in RunNet :
        LET r == compute_returns(SPY, CacheDir, cache, clock, net)
        IN  /\ cache' = r.files
            /\ IF r.raised
               THEN /\ pc' = "aborted"
                    /\ run' = [run EXCEPT !.abort = "benchmark", !.benchRaised = TRUE]
                    /\ UNCHANGED spy
               ELSE /\ spy' = r.val
                    /\ pc' = "loop"
                    /\ run' = [run EXCEPT !.benchFetched = TRUE, !.benchVals = r.val,
                                          !.passed = TRUE]
    /\ UNCHANGED <<idx, out_rows, workbook, destCsv, tmpCsv, variant, clock, notRun>>

\* lines 181-205: one iteration of the loop over DEFAULT_TICKERS
XlTicker ==
    /\ variant = "xlsx" /\ pc = "loop"
    /\ \E net \in RunNet :
        LET entry == XlTickers[idx]
            r == compute_returns(entry[2], CacheDir, cache, clock, net)
            v == IF r.raised THEN NoReturns ELSE r.val
        IN  /\ cache' = r.files
            /\ out_rows' = Append(out_rows, XlRow(entry, v, spy))
            /\ run' = [run EXCEPT !.outcomes = Append(@, [raised |-> r.raised, val |-> v])]
    /\ idx' = idx + 1
    /\ pc' = IF idx = Len(XlTickers) THEN "write" ELSE "loop"
    /\ UNCHANGED <<spy, workbook, destCsv, tmpCsv, variant, clock, notRun>>

\* line 207
XlWrite ==
    /\ variant = "xlsx" /\ pc = "write"
    /\ LET r == write_to_excel(workbook, out_rows, clock)
       IN  /\ workbook' = r.wb
           /\ IF r.raised
              THEN /\ pc' = "aborted"
                   /\ run' = [run EXCEPT !.abort = "sheet"]
              ELSE /\ pc' = "done"
                   /\ UNCHANGED run
    /\ UNCHANGED <<idx, spy, out_rows, cache, destCsv, tmpCsv, variant, clock, notRun>>

----------------------------------------------------------------------------
(* fetch and main of the CSV variant *)

\* fetch(t): raise_for_status, then the computation on the decoded document
CsvFetch(net) == IF ~net.ok THEN Raised("HTTPError") ELSE CsvFetchOf(net.json)

NoFile == [exists |-> FALSE, lines |-> <<>>]
FileOf(lines) == [exists |-> TRUE, lines |-> lines]

Blank == StrCell(<<>>)
CSV_HEADER == <<StrCell(<<"Ticker">>), StrCell(<<"Last">>), StrCell(<<"Ret3M">>),
                StrCell(<<"Ret6M">>), StrCell(<<"RS6M">>), StrCell(<<"UpdatedAt">>)>>

\* the row main writes for ticker t (lines 38-41)
CsvRow(t, v, spy_r6, now) ==
    IF v.last = None
    THEN <<StrCell(t), Blank, Blank, Blank, Blank, TimeCell(now)>>
    ELSE <<StrCell(t), NumCell(v.last), NumCell(v.r3), NumCell(v.r6),
           NumCell(RatSub(v.r6, spy_r6)), TimeCell(now)>>

\* lines 25-27
CsvBenchmark ==
    /\ variant = "csv" /\ pc = "benchmark"
    /\ \E net \in RunNet :
        LET r == CsvFetch(net)
        IN  IF r.raised
            THEN /\ pc' = "aborted"
                 /\ run' = [run EXCEPT !.abort = "benchmark", !.benchRaised = ~net.ok,
                                       !.benchFetched = net.ok, !.benchVals = r.val]
                 /\ UNCHANGED spy
            ELSE IF r.val.last = None
            THEN /\ pc' = "aborted"
                 /\ run' = [run EXCEPT !.abort = "benchmark", !.benchFetched = TRUE,
                                       !.benchVals = r.val]
                 /\ UNCHANGED spy
            ELSE /\ spy' = r.val
                 /\ pc' = "open"
                 /\ run' = [run EXCEPT !.benchFetched = TRUE, !.benchVals = r.val,
                                       !.passed = TRUE]
    /\ UNCHANGED <<idx, out_rows, workbook, cache, destCsv, tmpCsv, variant, clock, notRun>>

\* lines 33-35: open(tmp_csv, "w") and the header row
CsvOpen ==
    /\ variant = "csv" /\ pc = "open"
    /\ tmpCsv' = FileOf(<<CSV_HEADER>>)
    /\ pc' = "loop"
    /\ UNCHANGED <<idx, spy, out_rows, workbook, cache, destCsv, variant, clock, run, notRun>>

CsvTicker_direct ==
    /\ variant = "csv" /\ pc = "loop"
    /\ \E net \in RunNet :
        LET t == CsvTickers[idx]
            r == CsvFetch(net)
        IN  /\ run' = [run EXCEPT !.outcomes = Append(@, [raised |-> r.raised, val |-> r.val]),
                                  !.abort = IF r.raised THEN "ticker" ELSE @]
            /\ IF r.raised
               THEN /\ pc' = "aborted"
                    /\ UNCHANGED <<destCsv, idx>>
               ELSE /\ destCsv' = FileOf((IF destCsv.exists /\ idx > 1 THEN destCsv.lines
                                          ELSE <<CSV_HEADER>>)
                                         \o <<CsvRow(t, r.val, spy.r6, clock)>>)
                    /\ idx' = idx + 1
                    /\ pc' = IF idx = Len(CsvTickers) THEN "replace" ELSE "loop"
    /\ UNCHANGED <<spy, out_rows, workbook, cache, tmpCsv, variant, clock, notRun>>

\* lines 36-42: one iteration of the loop over TICKERS
CsvTicker ==
    /\ variant = "csv" /\ pc = "loop"
    /\ \E net \in RunNet :
        LET t == CsvTickers[idx]
            r == CsvFetch(net)
        IN  /\ run' = [run EXCEPT !.outcomes = Append(@, [raised |-> r.raised, val |-> r.val]),
                                  !.abort = IF r.raised THEN "ticker" ELSE @]
            /\ IF r.raised
               THEN /\ pc' = "aborted"
                    /\ UNCHANGED <<tmpCsv, idx>>
               ELSE /\ tmpCsv' = FileOf(Append(tmpCsv.lines, CsvRow(t, r.val, spy.r6, clock)))
                    /\ idx' = idx + 1
                    /\ pc' = IF idx = Len(CsvTickers) THEN "replace" ELSE "loop"
    /\ UNCHANGED <<spy, out_rows, workbook, cache, destCsv, variant, clock, notRun>>

\* line 44: os.replace(tmp_csv, out_csv)
CsvReplace ==
    /\ variant = "csv" /\ pc = "replace"
    /\ destCsv' = tmpCsv
    /\ tmpCsv' = NoFile
    /\ pc' = "done"
    /\ UNCHANGED <<idx, spy, out_rows, workbook, cache, variant, clock, run, notRun>>

----------------------------------------------------------------------------
(* One run of either variant *)

\* what a run has done so far, which the code does not keep: the stores before the
\* run, the benchmark's fetch and values, why the run ended early, each ticker's result
NoRun == [pre_wb |-> NoWorkbook, pre_csv |-> NoFile, pre_tmp |-> NoFile,
          benchRaised |-> FALSE, benchFetched |-> FALSE, benchVals |-> NoReturns,
          passed |-> FALSE, abort |-> "", outcomes |-> <<>>]

IdleRun ==
    /\ variant = "none" /\ pc = "idle" /\ idx = 1 /\ spy = NoReturns /\ out_rows = <<>>
    /\ destCsv = NoFile /\ tmpCsv = NoFile /\ run = NoRun

\* a workbook a previous run wrote, with a row the user added
UsedSheet ==
    <<HeaderRow, UserRow(StrCell(<<" ", "s", "p", "y">>)), UserRow(StrCell(<<"q", "q", "q">>)),
      UserRow(StrCell(<<"Z">>))>>
RunWorkbooks == {NoWorkbook, [has_data |-> TRUE, Data |-> <<HeaderRow>>],
                 [has_data |-> TRUE, Data |-> UsedSheet]}

\* the file a previous run left
OldCsv == FileOf(<<CSV_HEADER>> \o
                 [i \in 1..Len(CsvTickers) |-> CsvRow(CsvTickers[i], NoVal, None, 0)])
StaleTmp == FileOf(<<CSV_HEADER, CsvRow(SPY, NoVal, None, 0)>>)

\* cache files a run within the last hour, or an older one, left
RunCaches ==
    {NoFiles} \cup
    {cache_path(CacheDir, XlTickers[i][2], RANGE_2Y, INTERVAL_1D)
        :> [mtime |-> m, data |-> FullChart,
            key |-> <<XlTickers[i][2], RANGE_2Y, INTERVAL_1D>>] :
        i \in {1, Len(XlTickers)}, m \in {0, 1}}

InitRun ==
    /\ variant \in {"xlsx", "csv"}
    /\ pc = "benchmark" /\ idx = 1 /\ spy = NoReturns /\ out_rows = <<>>
    /\ clock = MAX_AGE_SEC + 1
    /\ IF variant = "xlsx"
       THEN /\ workbook \in RunWorkbooks /\ cache \in RunCaches
            /\ destCsv = NoFile /\ tmpCsv = NoFile
       ELSE /\ workbook = NoWorkbook /\ cache = NoFiles
            /\ destCsv \in {NoFile, OldCsv} /\ tmpCsv \in {NoFile, StaleTmp}
    /\ run = [NoRun EXCEPT !.pre_wb = workbook, !.pre_csv = destCsv, !.pre_tmp = tmpCsv]

----------------------------------------------------------------------------
(* Specifications *)

InitOfCalc == InitCalc /\ IdleCache /\ IdleMerge /\ IdleRun
NextCalc == ApplyCloseNDaysAgo \/ ApplyLastValidClose \/ ApplyComputeReturns \/ ApplyCsvFetch
SpecCalc == InitOfCalc /\ [][NextCalc]_vars

InitOfCache == IdleCalc /\ InitCache /\ IdleMerge /\ IdleRun
NextCache == Tick \/ CallFetchChart
SpecCache == InitOfCache /\ [][NextCache]_vars

InitOfMerge == IdleCalc /\ IdleCache /\ InitMerge /\ IdleRun
NextMerge == FirstWrite \/ WriteAgain \/ WriteWithNewTicker
SpecMerge == InitOfMerge /\ [][NextMerge]_vars

Init == IdleCalc /\ lastCall = NoCall /\ mergeLog = NoWrite /\ InitRun
Next == XlBenchmark \/ XlTicker \/ XlWrite \/ CsvBenchmark \/ CsvOpen \/ CsvTicker \/ CsvReplace
Spec == Init /\ [][Next]_vars

----------------------------------------------------------------------------
(* Properties of the calculators (SpecCalc) *)

Filtered == SelectSeq(chart.close, NotNone)

\* C6: over a closes array whose non-null subsequence nn has length L,
\* close_n_days_ago(n) is nn's element at 0-based index L-n-1 when n < L and is
\* absent when n >= L; it never falls back to the first element.
C6_CloseNDaysAgoIndex ==
    (chart.ok /\ calcOut["close_n_days_ago"] # Pending) =>
        IF lookback < Len(Filtered)
        THEN calcOut["close_n_days_ago"] = Rat(Filtered[Len(Filtered) - lookback], 1)
        ELSE calcOut["close_n_days_ago"] = None

\* a lookback equal to the number of valid observations of a series with a gap
C6_Witness ==
    /\ chart.ok /\ calcOut["close_n_days_ago"] = None
    /\ lookback = Len(Filtered) /\ lookback > 0
    /\ Len(chart.close) > Len(Filtered)

\* C7: on a series with enough history the CSV variant's fetch yields the 3-month and
\* 6-month returns compute_returns yields (lookbacks of 63 and 126 valid observations).
C7_CsvUsesCanonicalLookbacks ==
    (/\ calcOut["fetch"] # Pending /\ calcOut["compute_returns"] # Pending
     /\ ~calcOut["fetch"].raised /\ calcOut["fetch"].val.last # None) =>
        /\ calcOut["fetch"].val.r3 = calcOut["compute_returns"].r3
        /\ calcOut["fetch"].val.r6 = calcOut["compute_returns"].r6

----------------------------------------------------------------------------
(* Properties of fetch_chart (SpecCache) *)

CallPath == cache_path(CacheDir, lastCall.key[1], lastCall.key[2], lastCall.key[3])

\* what every call does, given when a stored response counts as fresh
CacheContract(fresh) ==
    /\ lastCall.calls = 0 <=> fresh
    /\ fresh => /\ ~lastCall.raised
                /\ lastCall.data = lastCall.pre
                /\ lastCall.preKey = lastCall.key
    /\ ~fresh => /\ lastCall.calls = 1
                 /\ lastCall.raised <=> ~lastCall.net.ok
                 /\ lastCall.net.ok =>
                        /\ lastCall.data = lastCall.net.json
                        /\ CallPath \in DOMAIN cache
                        /\ cache[CallPath] = [mtime |-> lastCall.now, data |-> lastCall.net.json,
                                              key |-> lastCall.key]

\* C9 as amended: a call returns the stored response, without a network call, exactly
\* when an entry stored under the same (ticker, range, interval) exists and its age is
\* at most max_age_sec; otherwise it makes one network call and stores the response
\* when that succeeds.  A stored response older than max_age_sec is never returned.
C9_FreshWithinMaxAge ==
    lastCall.called => CacheContract(lastCall.had /\ lastCall.age <= lastCall.max_age)

\* a stored response exactly max_age_sec old is returned
C9_Witness ==
    /\ lastCall.called /\ lastCall.had /\ lastCall.max_age > 0
    /\ lastCall.age = lastCall.max_age /\ lastCall.calls = 0
    /\ lastCall.data # Upstream(lastCall.now)

\* C9 as stated: the stored response is returned exactly when its age is below
\* max_age_sec, and never when its age is at or beyond it.
C9_FreshBelowMaxAge ==
    lastCall.called => CacheContract(lastCall.had /\ lastCall.age < lastCall.max_age)

----------------------------------------------------------------------------
(* Properties of write_to_excel (SpecMerge) *)

OldSheet == mergeLog.pre.Data
NewSheet == workbook.Data

\* ticker equals the cell's text, trimmed, without regard to case
Matches(cell, ticker) ==
    /\ cell.t = "str"
    /\ Strip(cell.s) # <<>>
    /\ Upper(Strip(cell.s)) = Upper(ticker)

InOldSheet(ticker) == \E r \in 2..Len(OldSheet) : Matches(OldSheet[r][1], ticker)

HoldsRowAt(ws, r, row) == \A c \in 2..LAST_COL : ws[r][c] = Payload(row, c, clock)
HoldsRow(ws, r, row) == \A c \in 2..LAST_COL : ws[r][c] = Payload(row, c, mergeLog.now)

\* C4: a computed row whose ticker matches a column-A cell of the sheet (trimmed,
\* case-insensitive) is written into such a sheet row, and a row whose ticker matches
\* none appends exactly one row; so writing the same tickers again leaves the row
\* count unchanged, and writing them with one more ticker that the sheet lacks adds
\* exactly one row.
C4_MergeUpdatesOrAppends ==
    (mergeLog.called /\ ~mergeLog.raised) =>
        LET rows == mergeLog.rows
            absent == {i \in 1..Len(rows) : ~InOldSheet(rows[i].Ticker)}
        IN  /\ Len(NewSheet) = Len(OldSheet) + Cardinality(absent)
            /\ \A i \in (1..Len(rows)) \ absent :
                \E r \in 2..Len(OldSheet) :
                    /\ Matches(OldSheet[r][1], rows[i].Ticker)
                    /\ \E j \in 1..Len(rows) :
                        /\ Upper(rows[j].Ticker) = Upper(rows[i].Ticker)
                        /\ HoldsRow(NewSheet, r, rows[j])
            /\ \A i \in absent :
                \E r \in (Len(OldSheet) + 1)..Len(NewSheet) :
                    /\ NewSheet[r][1] = StrCell(Upper(rows[i].Ticker))
                    /\ HoldsRow(NewSheet, r, rows[i])
            /\ mergeLog.again => Len(NewSheet) = Len(OldSheet)
            /\ (mergeLog.added /\ ~InOldSheet(rows[Len(rows)].Ticker)) =>
                    Len(NewSheet) = Len(OldSheet) + 1

\* the same two tickers written again, after the first write updated the user's
\* row " a " in place and appended a row for C
C4_Witness ==
    /\ mergeLog.called /\ mergeLog.again /\ ~mergeLog.raised
    /\ Len(mergeLog.rows) = 2
    /\ \E r \in 2..Len(OldSheet) :
        /\ OldSheet[r][1] = StrCell(<<" ", "a", " ">>)
        /\ OldSheet[r][13].t = "time"
    /\ \E r \in 2..Len(OldSheet) : OldSheet[r][1] = StrCell(<<"C">>)

\* C10: write_to_excel leaves column A and every column beyond 14 of each existing
\* row as it was, leaves every cell of an existing row whose ticker is not among the
\* computed rows as it was, never touches the header row, and raises without saving or
\* changing anything when the workbook has no sheet named Data.
C10_WriteFrame ==
    mergeLog.called =>
        IF ~mergeLog.pre.has_data
        THEN mergeLog.raised /\ ~mergeLog.saved /\ workbook = mergeLog.pre
        ELSE /\ ~mergeLog.raised
             /\ Len(NewSheet) >= Len(OldSheet)
             /\ NewSheet[1] = OldSheet[1]
             /\ \A r \in 1..Len(OldSheet) :
                    /\ NewSheet[r][1] = OldSheet[r][1]
                    /\ \A c \in (LAST_COL + 1)..Width : NewSheet[r][c] = OldSheet[r][c]
                    /\ (\A i \in 1..Len(mergeLog.rows) :
                            ~Matches(OldSheet[r][1], mergeLog.rows[i].Ticker))
                        => NewSheet[r] = OldSheet[r]

\* one write that updated the row " a ", kept another user row and appended a row
C10_Witness ==
    /\ mergeLog.called /\ ~mergeLog.raised
    /\ Len(NewSheet) > Len(OldSheet)
    /\ \E r, q \in 2..Len(OldSheet) :
        /\ OldSheet[r][1] = StrCell(<<" ", "a", " ">>)
        /\ NewSheet[r] # OldSheet[r]
        /\ OldSheet[q][1].t = "str"
        /\ NewSheet[q] = OldSheet[q]

----------------------------------------------------------------------------
(* Properties of a run (Spec) *)

Ended == pc \in {"done", "aborted"}

\* the sheet row that holds ticker t
SheetRowOf(ws, t) == CHOOSE r \in 2..Len(ws) : Matches(ws[r][1], t)

\* the persisted spreadsheet row of the i-th ticker carries result v
XlPersisted(i, v) ==
    LET ws == workbook.Data
        t == XlTickers[i][2]
    IN  /\ \E r \in 2..Len(ws) : Matches(ws[r][1], t)
        /\ HoldsRowAt(ws, SheetRowOf(ws, t), XlRow(XlTickers[i], v, spy))

\* the persisted CSV row of the i-th ticker carries result v
CsvPersisted(i, v) ==
    /\ destCsv.exists
    /\ Len(destCsv.lines) >= i + 1
    /\ destCsv.lines[i + 1] = CsvRow(CsvTickers[i], v, spy.r6, clock)

\* C1: once the benchmark was obtained, no failure of a ticker's fetch or computation
\* ends the run early, and the completed run has persisted one row per configured
\* ticker: derived fields absent for a failed ticker, the computed values otherwise.
C1_TickerFailuresAreIsolated ==
    (run.passed /\ (variant = "xlsx" => run.pre_wb.has_data)) =>
        /\ pc # "aborted"
        /\ pc = "done" =>
            \A i \in 1..NumTickers :
                IF variant = "xlsx"
                THEN XlPersisted(i, IF run.outcomes[i].raised THEN NoReturns
                                    ELSE run.outcomes[i].val)
                ELSE CsvPersisted(i, IF run.outcomes[i].raised THEN NoVal
                                     ELSE run.outcomes[i].val)

\* C2: when the benchmark's fetch raises (transport error or non-success status), the
\* run is aborted and nothing was written: the workbook, the CSV destination and
\* the temporary file are as they were before the run, and no row was built.
C2_BenchmarkFetchFailureAborts ==
    run.benchRaised =>
        /\ pc = "aborted"
        /\ workbook = run.pre_wb
        /\ destCsv = run.pre_csv
        /\ tmpCsv = run.pre_tmp
        /\ out_rows = <<>>

\* the benchmark's fetch failed over a workbook that holds rows of earlier runs
C2_Witness ==
    /\ run.benchRaised /\ pc = "aborted"
    /\ variant = "xlsx" /\ workbook.has_data /\ Len(workbook.Data) > 1

CsvFailed(i) == run.outcomes[i].raised \/ run.outcomes[i].val.last = None

\* C3: after any run of the CSV variant whose benchmark was obtained, the destination
\* is the header followed by exactly one row per configured ticker in list order,
\* whichever ticker fetches failed, and a failed ticker's row has empty Last, Ret3M,
\* Ret6M and RS6M.
C3_CsvOneRowPerTicker ==
    (variant = "csv" /\ run.passed /\ Ended) =>
        /\ destCsv.exists
        /\ Len(destCsv.lines) = NumTickers + 1
        /\ destCsv.lines[1] = CSV_HEADER
        /\ \A i \in 1..NumTickers :
            /\ destCsv.lines[i + 1][1] = StrCell(CsvTickers[i])
            /\ (i <= Len(run.outcomes) /\ CsvFailed(i)) =>
                   \A c \in 2..5 : destCsv.lines[i + 1][c] = Blank

\* a file that is the complete output of this run
CompleteCsv(f) ==
    /\ f.exists
    /\ Len(f.lines) = NumTickers + 1
    /\ f.lines[1] = CSV_HEADER
    /\ \A i \in 1..NumTickers :
        /\ f.lines[i + 1][1] = StrCell(CsvTickers[i])
        /\ f.lines[i + 1][6] = TimeCell(clock)

\* C5: at every point of a run of the CSV variant the destination holds its content
\* from before the run, or, once the run is done, the complete new output; while
\* rows are being written they go to the temporary file, which holds the header and
\* the rows written so far, and the destination is replaced only by the final step.
C5_CsvNeverPartial ==
    variant = "csv" =>
        /\ destCsv = run.pre_csv \/ (pc = "done" /\ CompleteCsv(destCsv))
        /\ pc \in {"loop", "replace"} =>
               /\ destCsv = run.pre_csv
               /\ tmpCsv.exists /\ Len(tmpCsv.lines) = idx
        /\ pc = "replace" => CompleteCsv(tmpCsv)
        /\ pc = "done" => CompleteCsv(destCsv) /\ ~tmpCsv.exists

\* a run that aborted after writing some rows, with the old output still in place
C5_Witness ==
    /\ variant = "csv" /\ pc = "aborted" /\ run.abort = "ticker"
    /\ Len(tmpCsv.lines) >= 3
    /\ destCsv = OldCsv

\* a benchmark document without usable closing data: no last close, or too few
\* valid observations for a return the relative strengths need
Unusable(v) == v.last = None \/ v.r3 = None \/ v.r6 = None

\* C8: a run whose benchmark document holds no usable closing data ends aborted at
\* the benchmark with nothing written; no run persists rows computed without
\* benchmark returns.
C8_UnusableBenchmarkAborts ==
    (run.benchFetched /\ Unusable(run.benchVals) /\ Ended) =>
        /\ pc = "aborted" /\ run.abort = "benchmark"
        /\ workbook = run.pre_wb
        /\ destCsv = run.pre_csv

====
